---- MODULE Spec2Model ----
(***************************************************************************)
(* A model of signals-light (src/include/signals_light/signal.hpp):        *)
(* Lifetime markers, Slots (a callable plus tracked Lifetime_observers),   *)
(* Identifiers (a 32-bit unsigned counter) and the Signal registry with    *)
(* connect, disconnect and emit.                                           *)
(***************************************************************************)
EXTENDS Integers, Sequences, FiniteSets, Bags, TLC

(***************************************************************************)
(* Bounds of the model.                                                    *)
(***************************************************************************)
\* most entries one Signal holds
MaxSlots == 3
\* most markers (make_shared calls) in one run
MaxMarkers == 3
\* most observers the caller's Slot tracks
MaxObservers == 2
\* most calls of Identifier::next in a row
MaxNexts == 2
\* most copies of the caller's Slot connected to the Signal
MaxCopies == 1
\* connect is explored while the identifier it mints is at most this value
MaxId == 2

(***************************************************************************)
(* Identifier: std::uint32_t value_.  The value is kept at its width as    *)
(* two 16-bit limbs, value_ = hi * 2^16 + lo.                              *)
(***************************************************************************)
Underlying_int_bits == 32

LimbBase == 2 ^ (Underlying_int_bits \div 2)

\* Identifier() noexcept : value_{0}
Identifier_default == [hi |-> 0, lo |-> 0]

\* the Identifier whose value_ is the small number n
IdOf(n) == [hi |-> 0, lo |-> n]

\* the Identifier holding the largest value of Underlying_int
Identifier_max == [hi |-> LimbBase - 1, lo |-> LimbBase - 1]

\* an increment of the low limb that loses the carry
Identifier_next_NoCarry(x) == [hi |-> x.hi, lo |-> (x.lo + 1) % LimbBase]

\* static Identifier::next(x): {x.value_ + 1}, unsigned arithmetic
Identifier_next(x) ==
    IF x.lo + 1 < LimbBase THEN [hi |-> x.hi, lo |-> x.lo + 1]
    ELSE IF x.hi + 1 < LimbBase THEN [hi |-> x.hi + 1, lo |-> 0]
    ELSE [hi |-> 0, lo |-> 0]

\* operator==(Identifier, Identifier)
Identifier_eq(x, y) == x.hi = y.hi /\ x.lo = y.lo

(***************************************************************************)
(* Lifetime markers and callables.                                         *)
(***************************************************************************)
\* the shared_ptr<bool> cells owned by Lifetime objects
Markers == {"m1", "m2"}

\* Lifetime_observer::is_expired(): handle_.expired()
Observer_is_expired(m, a) == m \notin a

\* A std::function stored in a Slot: calling it yields val and, as a side
\* effect, destroys the Lifetimes owning the markers in kills.  A callable
\* that calls connect or disconnect on the Signal emitting it invalidates
\* the iterators of emit's loop; such callables are not among these.
Callables ==
    { [val |-> 5, kills |-> {}],
      [val |-> 3, kills |-> {}],
      [val |-> 7, kills |-> {"m1"}] }

ObserverLists == { <<>>, <<"m1">>, <<"m2">> }

\* a std::function holding nothing: its operator bool is false and calling
\* it throws std::bad_function_call
EmptyFunction == [val |-> 0, kills |-> {}, empty |-> TRUE]

IsEmptyFunction(f) == "empty" \in DOMAIN f

\* Slot: Function_t f_ and std::vector<Lifetime_observer> observers_
SlotInputs == { [f |-> c, observers |-> o] : c \in Callables, o \in ObserverLists }

\* is_expired with all_of in place of any_of
Slot_is_expired_AllOf(s, a) ==
    \A k \in DOMAIN s.observers : Observer_is_expired(s.observers[k], a)

\* an is_expired that looks at the first observer only
Slot_is_expired_First(s, a) ==
    s.observers # <<>> /\ Observer_is_expired(s.observers[1], a)

\* Slot::is_expired(): any_of the observers is expired
Slot_is_expired(s, a) ==
    \E k \in DOMAIN s.observers : Observer_is_expired(s.observers[k], a)

\* slot.slot_function()(args...): the markers still alive after the call
InvokeEffect(s, a) == a \ s.f.kills

\* the call operator without its is_expired test
Slot_call_NoCheck(s, a) ==
    [threw |-> "none", has |-> TRUE, val |-> s.f.val, alive |-> InvokeEffect(s, a)]

\* a call operator that throws Expired whenever anything is tracked
Slot_call_ThrowIfTracking(s, a) ==
    IF s.observers # <<>>
    THEN [threw |-> "expired", has |-> FALSE, val |-> 0, alive |-> a]
    ELSE [threw |-> "none", has |-> TRUE, val |-> s.f.val, alive |-> InvokeEffect(s, a)]

\* Slot::operator()(args...): throws Expired, or calls f_ and returns its
\* result; alive are the markers still alive afterwards
Slot_call(s, a) ==
    IF Slot_is_expired(s, a)
    THEN [threw |-> "expired", has |-> FALSE, val |-> 0, alive |-> a]
    ELSE IF IsEmptyFunction(s.f)
    THEN [threw |-> "bad_function_call", has |-> FALSE, val |-> 0, alive |-> a]
    ELSE [threw |-> "none", has |-> TRUE, val |-> s.f.val, alive |-> InvokeEffect(s, a)]

(***************************************************************************)
(* State.                                                                  *)
(***************************************************************************)
VARIABLES
    slots,   \* Signal::slots_ : sequence of [id, slot]
    alive,   \* markers whose owning Lifetime has not been destroyed
    last,    \* the last operation: its inputs, its outcome, the state before
    hist,    \* what a caller has seen of the identifiers (see Observe)
    lifes,   \* the caller's Lifetime objects: [exists, life], life_ being the
             \* marker held, 0 for nullptr
    slot,    \* a Slot the caller holds
    obs,     \* the markers the caller holds a Lifetime_observer of
    addrOf,  \* the markers allocated so far: addrOf[m] is the address of m
    other,   \* a second Slot of the caller: [exists, slot, twin], twin telling
             \* that it was copied from slot and neither has been changed since
    sigB     \* a second Signal of the caller: [exists, slots]

\* the state of the caller's Lifetimes, observers and Slot
lvars == <<lifes, slot, obs, addrOf, other, sigB>>

vars == <<slots, alive, last, hist, lifes, slot, obs, addrOf, other, sigB>>

\* the largest element of a non-empty set of numbers
SetMax(S) == CHOOSE x \in S : \A y \in S : y <= x

\* std::optional<R>: std::nullopt, or a value
Nullopt == [has |-> FALSE, val |-> 0]

Some(v) == [has |-> TRUE, val |-> v]

\* stands for "no Slot" where an operation returns none
NoSlot == [f |-> [val |-> 0, kills |-> {}], observers |-> <<>>]

\* the record kept of one operation
\* threw is "none" or the exception that ended the operation
Op(name, id, s, ret, threw, log, preSlots, preAlive) ==
    [op |-> name, id |-> id, slot |-> s, ret |-> ret, threw |-> threw,
     log |-> log, preSlots |-> preSlots, preAlive |-> preAlive]

(***************************************************************************)
(* Signal::emit.  An emission is the record [ret, alive, log]: the value   *)
(* returned, the markers alive afterwards, and the invocations made, each  *)
(* as [pos, before]: the position of the entry invoked and the markers     *)
(* alive when it was invoked.                                              *)
(***************************************************************************)
\* the void loop without its is_expired test
RECURSIVE EmitVoidLoop_NoGate(_, _, _, _)
EmitVoidLoop_NoGate(ss, i, a, log) ==
    IF i > Len(ss) THEN [ret |-> Nullopt, alive |-> a, log |-> log]
    ELSE EmitVoidLoop_NoGate(ss, i + 1, InvokeEffect(ss[i].slot, a),
                             Append(log, [pos |-> i, before |-> a]))

\* emit, R = void: the range-for over slots_ from position i on
RECURSIVE EmitVoidLoop(_, _, _, _)
EmitVoidLoop(ss, i, a, log) ==
    IF i > Len(ss) THEN [ret |-> Nullopt, alive |-> a, log |-> log]
    ELSE IF Slot_is_expired(ss[i].slot, a)
         THEN EmitVoidLoop(ss, i + 1, a, log)
         ELSE EmitVoidLoop(ss, i + 1, InvokeEffect(ss[i].slot, a),
                           Append(log, [pos |-> i, before |-> a]))

\* a find_if over slots_ in insertion order instead of reversed
LastValid_First(ss, a) ==
    LET live == { i \in DOMAIN ss : ~Slot_is_expired(ss[i].slot, a) }
    IN  IF live = {} THEN 0 ELSE CHOOSE x \in live : \A y \in live : x <= y

\* emit, R non-void: find_if over the reversed slots_ for a non-expired
\* entry; 0 stands for crend
LastValid(ss, a) ==
    LET live == { i \in DOMAIN ss : ~Slot_is_expired(ss[i].slot, a) }
    IN  IF live = {} THEN 0 ELSE SetMax(live)

\* the non-void loop testing is_expired against the markers alive when the
\* emission began (a0) instead of those alive now (a)
RECURSIVE SnapshotLoop(_, _, _, _, _, _)
SnapshotLoop(ss, i, lv, a0, a, log) ==
    IF i > Len(ss) THEN [ret |-> Nullopt, alive |-> a, log |-> log]
    ELSE IF Slot_is_expired(ss[i].slot, a0)
         THEN SnapshotLoop(ss, i + 1, lv, a0, a, log)
         ELSE IF i = lv
              THEN [ret |-> Some(ss[i].slot.f.val),
                    alive |-> InvokeEffect(ss[i].slot, a),
                    log |-> Append(log, [pos |-> i, before |-> a])]
              ELSE SnapshotLoop(ss, i + 1, lv, a0, InvokeEffect(ss[i].slot, a),
                                Append(log, [pos |-> i, before |-> a]))

EmitLoop_Snapshot(ss, i, lv, a, log) == SnapshotLoop(ss, i, lv, a, a, log)

\* emit, R non-void: the range-for over slots_ from position i on, lv being
\* the position last_valid_iter points at
RECURSIVE EmitLoop(_, _, _, _, _)
EmitLoop(ss, i, lv, a, log) ==
    IF i > Len(ss) THEN [ret |-> Nullopt, alive |-> a, log |-> log]
    ELSE IF Slot_is_expired(ss[i].slot, a)
         THEN EmitLoop(ss, i + 1, lv, a, log)
         ELSE IF i = lv
              THEN [ret |-> Some(ss[i].slot.f.val),
                    alive |-> InvokeEffect(ss[i].slot, a),
                    log |-> Append(log, [pos |-> i, before |-> a])]
              ELSE EmitLoop(ss, i + 1, lv, InvokeEffect(ss[i].slot, a),
                            Append(log, [pos |-> i, before |-> a]))

\* emit, R non-void
EmitNonVoid(ss, a) ==
    LET lv == LastValid(ss, a)
    IN  IF lv = 0 THEN [ret |-> Nullopt, alive |-> a, log |-> <<>>]
        ELSE EmitLoop(ss, 1, lv, a, <<>>)

(***************************************************************************)
(* Signal::connect and Signal::disconnect.                                 *)
(***************************************************************************)
\* connect numbering the entry by the size of the sequence
ConnectId_Count(ss) == IdOf(Len(ss))

\* connect skipping one value past the last entry's identifier, so that the
\* identifier of a last entry just disconnected is not minted again
ConnectId_NoReuse(ss) ==
    IF ss = <<>> THEN Identifier_default
    ELSE Identifier_next(Identifier_next(ss[Len(ss)].id))

\* connect taking the next of the first entry's identifier
ConnectId_FromFront(ss) ==
    IF ss = <<>> THEN Identifier_default ELSE Identifier_next(ss[1].id)

\* the identifier connect mints for the sequence ss
ConnectId(ss) ==
    IF ss = <<>> THEN Identifier_default ELSE Identifier_next(ss[Len(ss)].id)

\* find_if with a predicate that accepts every entry
FindId_AnyEntry(ss, id) == IF ss = <<>> THEN 0 ELSE 1

\* find_if over slots_ for the identifier id; 0 stands for cend
FindId(ss, id) ==
    LET hits == { i \in DOMAIN ss : Identifier_eq(ss[i].id, id) }
    IN  IF hits = {} THEN 0 ELSE CHOOSE i \in hits : \A j \in hits : i <= j

\* erase that leaves the sequence as it is
Erase_Nothing(ss, k) == ss

\* erase that removes the last entry, whatever iter points at
Erase_Back(ss, k) == SubSeq(ss, 1, Len(ss) - 1)

\* slots_.erase(iter)
Erase(ss, k) == SubSeq(ss, 1, k - 1) \o SubSeq(ss, k + 1, Len(ss))

\* Signal::slot_count()
Signal_slot_count(ss) == Len(ss)

\* Signal::is_empty()
Signal_is_empty(ss) == ss = <<>>

(***************************************************************************)
(* Initial states and actions.                                             *)
(***************************************************************************)
\* The caller's record of the identifiers: outstanding counts, per
\* identifier, the connects that returned it minus the disconnects of it
\* that succeeded; disconnected holds the identifiers a disconnect has
\* succeeded on; before is the record as it was before the last operation.
HistoryOf(ss) ==
    [outstanding |-> [id \in { ss[i].id : i \in DOMAIN ss } |->
                        Cardinality({ i \in DOMAIN ss : ss[i].id = id })],
     disconnected |-> {}]

NoHistory == [now |-> HistoryOf(<<>>), before |-> HistoryOf(<<>>)]

\* the record after the operation l
Observe(h, l) ==
    [before |-> h.now,
     now |->
        IF l.op = "connect"
        THEN [h.now EXCEPT !.outstanding = @ (+) SetToBag({l.id})]
        ELSE IF l.op = "disconnect" /\ l.threw = "none"
        THEN [outstanding |-> h.now.outstanding (-) SetToBag({l.id}),
              disconnected |-> h.now.disconnected \cup {l.id}]
        ELSE h.now]

\* the caller's Lifetime objects
LifetimeObjs == {"L1", "L2"}

\* the second Signal not constructed
NoSignal == [exists |-> FALSE, slots |-> <<>>]

\* the second Slot not constructed
NoOther == [exists |-> FALSE, slot |-> NoSlot, twin |-> FALSE]

\* no Lifetime object constructed yet, a Slot of a callable returning 5 that
\* tracks nothing, no observer taken, no marker allocated
NoLifetimes ==
    /\ lifes = [L \in LifetimeObjs |-> [exists |-> FALSE, life |-> 0]]
    /\ slot = [f |-> [val |-> 5, kills |-> {}], observers |-> <<>>]
    /\ obs = {}
    /\ addrOf = <<>>
    /\ other = NoOther
    /\ sigB = NoSignal

\* Signal() = default: no connected Slots; every Lifetime exists
Init ==
    /\ slots = <<>>
    /\ alive = Markers
    /\ last = Op("init", Identifier_default, NoSlot, Nullopt, "none", <<>>, <<>>, Markers)
    /\ hist = NoHistory
    /\ NoLifetimes

\* Signal::connect(s)
Connect(s) ==
    LET id == ConnectId(slots)
    IN  /\ Len(slots) < MaxSlots
        /\ id.hi = 0 /\ id.lo <= MaxId
        /\ slots' = Append(slots, [id |-> id, slot |-> s])
        /\ last' = Op("connect", id, s, Nullopt, "none", <<>>, slots, alive)
        /\ UNCHANGED alive

\* Signal::disconnect(id)
Disconnect(id) ==
    LET k == FindId(slots, id)
    IN  IF k = 0
        THEN /\ last' = Op("disconnect", id, NoSlot, Nullopt, "invalid_argument", <<>>, slots, alive)
             /\ UNCHANGED <<slots, alive>>
        ELSE /\ slots' = Erase(slots, k)
             /\ last' = Op("disconnect", id, slots[k].slot, Nullopt, "none", <<>>, slots, alive)
             /\ UNCHANGED alive

\* an emit that drops the entries it found expired
SlotsAfterEmit_Pruned(ss, a) ==
    LET Live(e) == ~Slot_is_expired(e.slot, a)
    IN  SelectSeq(ss, Live)

\* slots_ after emit: emit is a const member function that only reads
\* slots_
SlotsAfterEmit(ss, a) == ss

\* Signal<R(Args...)>::emit with R non-void
Emit ==
    LET e == EmitNonVoid(slots, alive)
    IN  /\ alive' = e.alive
        /\ last' = Op("emit", Identifier_default, NoSlot, e.ret, "none", e.log, slots, alive)
        /\ slots' = SlotsAfterEmit(slots, alive)

\* Signal<void(Args...)>::emit
EmitVoid ==
    LET e == EmitVoidLoop(slots, 1, alive, <<>>)
    IN  /\ alive' = e.alive
        /\ last' = Op("emit_void", Identifier_default, NoSlot, e.ret, "none", e.log, slots, alive)
        /\ slots' = SlotsAfterEmit(slots, alive)

\* the Lifetime owning marker m is destroyed
DestroyLifetime(m) ==
    /\ m \in alive
    /\ alive' = alive \ {m}
    /\ last' = Op("destroy", Identifier_default, NoSlot, Nullopt, "none", <<>>, slots, alive)
    /\ UNCHANGED slots

\* the caller invokes, with the call operator, the Slot it connected as
\* entry i (the Signal holds a copy of it with the same observers)
DirectCall(i) ==
    LET r == Slot_call(slots[i].slot, alive)
    IN  /\ alive' = r.alive
        /\ last' = Op("call", slots[i].id, slots[i].slot,
                      [has |-> r.has, val |-> r.val], r.threw,
                      IF r.threw = "none" THEN <<[pos |-> i, before |-> alive]>> ELSE <<>>,
                      slots, alive)
        /\ UNCHANGED slots

\* the identifiers handed to disconnect
IdInputs == { IdOf(n) : n \in 0..(MaxId + 1) } \cup {Identifier_max}

Next ==
    \/ \E s \in SlotInputs : Connect(s) /\ UNCHANGED <<hist, lvars>>
    \/ \E id \in IdInputs : Disconnect(id) /\ UNCHANGED <<hist, lvars>>
    \/ Emit /\ UNCHANGED <<hist, lvars>>
    \/ EmitVoid /\ UNCHANGED <<hist, lvars>>
    \/ \E m \in Markers : DestroyLifetime(m) /\ UNCHANGED <<hist, lvars>>
    \/ \E i \in DOMAIN slots : DirectCall(i) /\ UNCHANGED <<hist, lvars>>

\* A Signal created empty, under emission, connect, disconnect and the
\* destruction of Lifetimes.
Spec == Init /\ [][Next]_vars

(***************************************************************************)
(* The registry over a long run.  Every sequence of entries whose          *)
(* identifiers strictly increase is a state of the program: connect until  *)
(* the largest of them has been minted, then disconnect the others.  The   *)
(* initial states take such sequences with identifiers up to the largest   *)
(* value of the counter, and the caller's record starts with them.         *)
(***************************************************************************)
Identifier_less(x, y) == x.hi < y.hi \/ (x.hi = y.hi /\ x.lo < y.lo)

AgedIds == { IdOf(0), IdOf(1), Identifier_max }

RegistrySlots ==
    { [f |-> [val |-> 5, kills |-> {}], observers |-> <<>>],
      [f |-> [val |-> 3, kills |-> {}], observers |-> <<"m1">>] }

AgedSignals ==
    { ss \in UNION { [1..n -> [id : AgedIds, slot : RegistrySlots]] : n \in 0..MaxSlots } :
        \A i, j \in DOMAIN ss : i < j => Identifier_less(ss[i].id, ss[j].id) }

RegistryInit ==
    /\ slots \in AgedSignals
    /\ alive = Markers
    /\ last = Op("init", Identifier_default, NoSlot, Nullopt, "none", <<>>, slots, Markers)
    /\ hist = [now |-> HistoryOf(slots), before |-> HistoryOf(slots)]
    /\ NoLifetimes

Record == hist' = Observe(hist, last') /\ UNCHANGED lvars

RegistryNext ==
    \/ \E s \in RegistrySlots : Connect(s) /\ Record
    \/ \E id \in IdInputs : Disconnect(id) /\ Record
    \/ Emit /\ Record
    \/ EmitVoid /\ Record
    \/ \E m \in Markers : DestroyLifetime(m) /\ Record

RegistrySpec == RegistryInit /\ [][RegistryNext]_vars

(***************************************************************************)
(* Lifetime objects.  A marker is the shared_ptr<bool> cell one make_shared *)
(* call creates; markers are numbered 1, 2, ... in the order of creation    *)
(* and addrOf[m] is the address of the cell.  Only Lifetime objects hold    *)
(* strong references, so a marker is alive while some Lifetime holds it;    *)
(* its memory stays allocated while an observer refers to it.               *)
(***************************************************************************)
\* the record kept of one operation on Lifetimes, observers or the Slot:
\* flag is the boolean an operation returned, pre the state before it
LOp(name, dst, src, flag, ret, threw, pre) ==
    [op |-> name, dst |-> dst, src |-> src, flag |-> flag, ret |-> ret,
     threw |-> threw, pre |-> pre]

PreState == [lifes |-> lifes, alive |-> alive, slot |-> slot, obs |-> obs,
             addrOf |-> addrOf, slots |-> slots, other |-> other]

\* the markers with a strong reference: use_count() > 0
Held(ls) == { ls[L].life : L \in { K \in LifetimeObjs : ls[K].exists } } \ {0}

\* the markers whose memory is still allocated: alive, or referred to by a
\* Lifetime_observer of the caller, of one of the caller's Slots or of an
\* entry of the Signal
Blocks ==
    alive \cup obs \cup { slot.observers[k] : k \in DOMAIN slot.observers }
          \cup { other.slot.observers[k] : k \in DOMAIN other.slot.observers }
          \cup UNION { { slots[i].slot.observers[k] : k \in DOMAIN slots[i].slot.observers } :
                         i \in DOMAIN slots }

\* the addresses make_shared may return: one freed before, or the lowest one
\* never used (the addresses never used are interchangeable)
Addresses == 1..MaxMarkers

AddressChoices ==
    LET used   == { addrOf[m] : m \in Blocks }
        known  == { addrOf[m] : m \in DOMAIN addrOf }
        unseen == Addresses \ known
    IN  (known \ used) \cup
        (IF unseen = {} THEN {} ELSE { CHOOSE x \in unseen : \A y \in unseen : x <= y })

\* a marker number given again once its marker has expired
NewMarker_Recycle(ad, a) ==
    LET dead == DOMAIN ad \ a
    IN  IF dead = {} THEN Len(ad) + 1 ELSE CHOOSE x \in dead : \A y \in dead : x <= y

\* std::make_shared<bool>(true): the marker created next
NewMarker(ad, a) == Len(ad) + 1

\* a get_id without its is_expired test
Observer_get_id_Address(m, a, ad) == ad[m]

\* Lifetime_observer::get_id(): 0 if expired, else the address of the cell
Observer_get_id(m, a, ad) == IF Observer_is_expired(m, a) THEN 0 ELSE ad[m]

\* Lifetime(): life_{make_shared}, m being the new marker
Lifetime_construct(ls, d, m) == [ls EXCEPT ![d] = [exists |-> TRUE, life |-> m]]

\* a copy constructor that shares life_ (the defaulted one)
Lifetime_copy_construct_Share(ls, d, s, m) ==
    [ls EXCEPT ![d] = [exists |-> TRUE, life |-> ls[s].life]]

\* Lifetime(Lifetime const&): life_{make_shared}, m being the new marker
Lifetime_copy_construct(ls, d, s, m) ==
    [ls EXCEPT ![d] = [exists |-> TRUE, life |-> m]]

\* a move constructor that leaves life_ in the source
Lifetime_move_construct_Keep(ls, d, s) ==
    [ls EXCEPT ![d] = [exists |-> TRUE, life |-> ls[s].life]]

\* Lifetime(Lifetime&&) = default: life_ moves, the source holds nullptr
Lifetime_move_construct(ls, d, s) ==
    [ls EXCEPT ![d] = [exists |-> TRUE, life |-> ls[s].life], ![s].life = 0]

\* copy assignment without the test for self-assignment
Lifetime_copy_assign_NoSelfTest(ls, d, s, m) == [ls EXCEPT ![d].life = m]

\* operator=(Lifetime const& rhs), m being the new marker
Lifetime_copy_assign(ls, d, s, m) ==
    IF d = s THEN ls ELSE [ls EXCEPT ![d].life = m]

\* operator=(Lifetime&& rhs)
Lifetime_move_assign(ls, d, s) ==
    IF d = s THEN ls ELSE [ls EXCEPT ![d].life = ls[s].life, ![s].life = 0]

\* ~Lifetime(): life_ is released
Lifetime_destroy(ls, d) == [ls EXCEPT ![d] = [exists |-> FALSE, life |-> 0]]

\* the entries as if the Signal referred to the caller's Slot s, which
\* became t
EntriesAfterCallerChange_Aliased(ss, s, t) ==
    [i \in DOMAIN ss |-> IF ss[i].slot = s THEN [ss[i] EXCEPT !.slot = t] ELSE ss[i]]

\* the entries of the Signal after the caller's Slot s became t: connect
\* takes its Slot by value and moves it into slots_, so no entry changes
EntriesAfterCallerChange(ss, s, t) == ss

\* one step on the caller's objects; the markers alive afterwards are those
\* still held by a Lifetime
LStep(rec, newLifes, newSlot, newObs, newAddr) ==
    /\ lifes' = newLifes
    /\ slot' = newSlot
    /\ obs' = newObs
    /\ addrOf' = newAddr
    /\ alive' = Held(newLifes)
    /\ last' = rec
    /\ slots' = EntriesAfterCallerChange(slots, slot, newSlot)
    /\ other' = IF newSlot = slot THEN other ELSE [other EXCEPT !.twin = FALSE]
    /\ UNCHANGED <<hist, sigB>>

\* auto L = Lifetime{};
LConstruct(d) ==
    /\ ~lifes[d].exists
    /\ Len(addrOf) < MaxMarkers
    /\ \E ad \in AddressChoices :
          LStep(LOp("construct", d, d, FALSE, Nullopt, "none", PreState),
                Lifetime_construct(lifes, d, NewMarker(addrOf, alive)),
                slot, obs, Append(addrOf, ad))

\* auto d = Lifetime{s};
LCopyConstruct(d, s) ==
    /\ ~lifes[d].exists /\ lifes[s].exists
    /\ Len(addrOf) < MaxMarkers
    /\ \E ad \in AddressChoices :
          LStep(LOp("copy_construct", d, s, FALSE, Nullopt, "none", PreState),
                Lifetime_copy_construct(lifes, d, s, NewMarker(addrOf, alive)),
                slot, obs, Append(addrOf, ad))

\* auto d = Lifetime{std::move(s)};
LMoveConstruct(d, s) ==
    /\ ~lifes[d].exists /\ lifes[s].exists
    /\ LStep(LOp("move_construct", d, s, FALSE, Nullopt, "none", PreState),
             Lifetime_move_construct(lifes, d, s), slot, obs, addrOf)

\* d = s;  (make_shared is not called on self-assignment)
LCopyAssign(d, s) ==
    /\ lifes[d].exists /\ lifes[s].exists
    /\ IF d = s
       THEN LStep(LOp("copy_assign", d, s, FALSE, Nullopt, "none", PreState),
                  Lifetime_copy_assign(lifes, d, s, 0), slot, obs, addrOf)
       ELSE /\ Len(addrOf) < MaxMarkers
            /\ \E ad \in AddressChoices :
                  LStep(LOp("copy_assign", d, s, FALSE, Nullopt, "none", PreState),
                        Lifetime_copy_assign(lifes, d, s, NewMarker(addrOf, alive)),
                        slot, obs, Append(addrOf, ad))

\* d = std::move(s);
LMoveAssign(d, s) ==
    /\ lifes[d].exists /\ lifes[s].exists
    /\ LStep(LOp("move_assign", d, s, FALSE, Nullopt, "none", PreState),
             Lifetime_move_assign(lifes, d, s), slot, obs, addrOf)

\* d goes out of scope
LDestroy(d) ==
    /\ lifes[d].exists
    /\ LStep(LOp("destroy", d, d, FALSE, Nullopt, "none", PreState),
             Lifetime_destroy(lifes, d), slot, obs, addrOf)

\* auto o = d.track();  Lifetime_observer's constructor throws on nullptr
LTrack(d) ==
    /\ lifes[d].exists
    /\ IF lifes[d].life = 0
       THEN LStep(LOp("track", d, d, FALSE, Nullopt, "invalid_argument", PreState),
                  lifes, slot, obs, addrOf)
       ELSE LStep(LOp("track", d, d, FALSE, Nullopt, "none", PreState),
                  lifes, slot, obs \cup {lifes[d].life}, addrOf)

\* the caller's observers of marker m go out of scope
ObserverDrop(m) ==
    /\ m \in obs
    /\ LStep(LOp("drop", "", "", FALSE, Nullopt, "none", PreState),
             lifes, slot, obs \ {m}, addrOf)

\* o.get_id();  o being an observer of marker m the caller holds
ObserverGetId(m) ==
    /\ m \in obs
    /\ LStep([op |-> "get_id", dst |-> "", src |-> "", flag |-> FALSE,
              ret |-> Some(Observer_get_id(m, alive, addrOf)), threw |-> "none",
              pre |-> PreState, arg |-> m],
             lifes, slot, obs, addrOf)

\* no Signal, no Lifetime, a Slot tracking nothing
LifetimeInit ==
    /\ slots = <<>>
    /\ alive = {}
    /\ hist = NoHistory
    /\ NoLifetimes
    /\ last = LOp("init", "", "", FALSE, Nullopt, "none",
                  [lifes |-> [L \in LifetimeObjs |-> [exists |-> FALSE, life |-> 0]],
                   alive |-> {}, slot |-> NoSlot, obs |-> {}, addrOf |-> <<>>,
                   slots |-> <<>>, other |-> NoOther])

LifetimeNext ==
    \/ \E d \in LifetimeObjs : LConstruct(d)
    \/ \E d, s \in LifetimeObjs : d # s /\ LCopyConstruct(d, s)
    \/ \E d, s \in LifetimeObjs : d # s /\ LMoveConstruct(d, s)
    \/ \E d, s \in LifetimeObjs : LCopyAssign(d, s)
    \/ \E d, s \in LifetimeObjs : LMoveAssign(d, s)
    \/ \E d \in LifetimeObjs : LDestroy(d)
    \/ \E d \in LifetimeObjs : LTrack(d)
    \/ \E m \in DOMAIN addrOf : ObserverDrop(m)
    \/ \E m \in DOMAIN addrOf : ObserverGetId(m)

\* Lifetime objects constructed, copied, moved, assigned and destroyed, and
\* observers taken of them
LifetimeSpec == LifetimeInit /\ [][LifetimeNext]_vars

(***************************************************************************)
(* The caller's own Slot: it tracks Lifetimes and observers, is asked       *)
(* whether it is expired, and is invoked directly.                          *)
(***************************************************************************)
\* a track that leaves out a marker already tracked
Slot_track_Dedup(s, m) ==
    IF \E k \in DOMAIN s.observers : s.observers[k] = m
    THEN s
    ELSE [s EXCEPT !.observers = Append(@, m)]

\* Slot::track(Lifetime_observer const&): observers_.push_back(x)
Slot_track(s, m) == [s EXCEPT !.observers = Append(@, m)]

\* the record kept of a Slot operation given an observer of marker m; m is 0
\* when no observer came to be
SlotOp(name, m, threw, pre) ==
    [op |-> name, dst |-> "", src |-> "", flag |-> FALSE, ret |-> Nullopt,
     threw |-> threw, pre |-> pre, arg |-> m]

\* a find_if that compares the markers observed instead of the ids
FindObserver_SameMarker(os, x, a, ad) ==
    LET same == { k \in DOMAIN os : os[k] = x }
    IN  IF same = {} THEN 0 ELSE CHOOSE k \in same : \A j \in same : k <= j

\* a find_if that returns the last observer with the id of x
FindObserver_Last(os, x, a, ad) ==
    LET same == { k \in DOMAIN os :
                    Observer_get_id(x, a, ad) = Observer_get_id(os[k], a, ad) }
    IN  IF same = {} THEN 0 ELSE SetMax(same)

\* find_if over observers_ with x.get_id() == y.get_id(); 0 stands for cend
FindObserver(os, x, a, ad) ==
    LET same == { k \in DOMAIN os :
                    Observer_get_id(x, a, ad) = Observer_get_id(os[k], a, ad) }
    IN  IF same = {} THEN 0 ELSE CHOOSE k \in same : \A j \in same : k <= j

\* observers_.erase(iter)
Observers_erase(os, k) == SubSeq(os, 1, k - 1) \o SubSeq(os, k + 1, Len(os))

\* an untrack that empties the collection when it finds nothing
Slot_untrack_ClearOnFail(s, x, a, ad) ==
    LET k == FindObserver(s.observers, x, a, ad)
    IN  IF k = 0
        THEN [threw |-> "invalid_argument", slot |-> [s EXCEPT !.observers = <<>>]]
        ELSE [threw |-> "none",
              slot |-> [s EXCEPT !.observers = Observers_erase(@, k)]]

\* Slot::untrack(Lifetime_observer const& x), x observing marker x
Slot_untrack(s, x, a, ad) ==
    LET k == FindObserver(s.observers, x, a, ad)
    IN  IF k = 0
        THEN [threw |-> "invalid_argument", slot |-> s]
        ELSE [threw |-> "none",
              slot |-> [s EXCEPT !.observers = Observers_erase(@, k)]]

\* slot.untrack(o);  o being an observer of marker m the caller holds
SlotUntrackObserver(m) ==
    /\ m \in obs
    /\ LET r == Slot_untrack(slot, m, alive, addrOf)
       IN  LStep(SlotOp("slot_untrack", m, r.threw, PreState), lifes, r.slot, obs, addrOf)

\* slot.untrack(d);  d.track() throws on a moved-from Lifetime
SlotUntrackLifetime(d) ==
    /\ lifes[d].exists
    /\ IF lifes[d].life = 0
       THEN LStep(SlotOp("slot_untrack", 0, "invalid_argument", PreState),
                  lifes, slot, obs, addrOf)
       ELSE LET r == Slot_untrack(slot, lifes[d].life, alive, addrOf)
            IN  LStep(SlotOp("slot_untrack", lifes[d].life, r.threw, PreState),
                      lifes, r.slot, obs, addrOf)

\* slot.track(d);  d.track() throws on a moved-from Lifetime
SlotTrackLifetime(d) ==
    /\ lifes[d].exists
    /\ Len(slot.observers) < MaxObservers
    /\ IF lifes[d].life = 0
       THEN LStep(SlotOp("slot_track", 0, "invalid_argument", PreState),
                  lifes, slot, obs, addrOf)
       ELSE LStep(SlotOp("slot_track", lifes[d].life, "none", PreState),
                  lifes, Slot_track(slot, lifes[d].life), obs, addrOf)

\* slot.track(o);  o being an observer of marker m the caller holds
SlotTrackObserver(m) ==
    /\ m \in obs
    /\ Len(slot.observers) < MaxObservers
    /\ LStep(SlotOp("slot_track", m, "none", PreState),
             lifes, Slot_track(slot, m), obs, addrOf)

\* slot.is_expired();  flag is the result
SlotIsExpired ==
    LStep(LOp("is_expired", "", "", Slot_is_expired(slot, alive), Nullopt, "none",
              PreState),
          lifes, slot, obs, addrOf)

\* slot(args...);  flag tells whether the callable ran
SlotCall ==
    LET r == Slot_call(slot, alive)
    IN  /\ r.alive = alive
        /\ LStep(LOp("call", "", "", r.has, [has |-> r.has, val |-> r.val], r.threw,
                     PreState),
                 lifes, slot, obs, addrOf)

SlotNext ==
    \/ \E d \in LifetimeObjs : LConstruct(d)
    \/ \E d, s \in LifetimeObjs : LMoveAssign(d, s)
    \/ \E d \in LifetimeObjs : LDestroy(d)
    \/ \E d \in LifetimeObjs : LTrack(d)
    \/ \E m \in DOMAIN addrOf : ObserverDrop(m)
    \/ \E d \in LifetimeObjs : SlotTrackLifetime(d)
    \/ \E m \in DOMAIN addrOf : SlotTrackObserver(m)
    \/ \E d \in LifetimeObjs : SlotUntrackLifetime(d)
    \/ \E m \in DOMAIN addrOf : SlotUntrackObserver(m)
    \/ SlotIsExpired
    \/ SlotCall

\* one Slot of the caller and the Lifetimes it tracks
SlotSpec == LifetimeInit /\ [][SlotNext]_vars

(***************************************************************************)
(* Two Signals: the caller makes a second Signal from the first by copy or *)
(* by move, assigns the first to it, and connects, disconnects and emits   *)
(* on each.                                                                *)
(***************************************************************************)
\* a copy that numbers the entries anew
Signal_copy_Renumbered(ss) == [i \in DOMAIN ss |-> [ss[i] EXCEPT !.id = IdOf(i - 1)]]

\* Signal(Signal const&) = default: slots_ is copied
Signal_copy(ss) == ss

\* what Signal(Signal&&) and operator=(Signal&&) leave in their source: the
\* std::vector moved from is empty
Signal_moved_from(ss) == <<>>

\* one step that leaves the Lifetimes and Slots of the caller alone
SStep(rec, newSlots, newB) ==
    /\ slots' = newSlots
    /\ sigB' = newB
    /\ last' = rec
    /\ UNCHANGED <<alive, hist, lifes, slot, obs, addrOf, other>>

\* auto b = sig;
SigCopyConstruct ==
    /\ ~sigB.exists
    /\ SStep(Op("signal_copy", Identifier_default, NoSlot, Nullopt, "none", <<>>, slots, alive),
             slots, [exists |-> TRUE, slots |-> Signal_copy(slots)])

\* auto b = std::move(sig);
SigMoveConstruct ==
    /\ ~sigB.exists
    /\ SStep(Op("signal_move", Identifier_default, NoSlot, Nullopt, "none", <<>>, slots, alive),
             Signal_moved_from(slots), [exists |-> TRUE, slots |-> slots])

\* b = sig;
SigCopyAssign ==
    /\ sigB.exists
    /\ SStep(Op("signal_copy", Identifier_default, NoSlot, Nullopt, "none", <<>>, slots, alive),
             slots, [exists |-> TRUE, slots |-> Signal_copy(slots)])

\* b = std::move(sig);
SigMoveAssign ==
    /\ sigB.exists
    /\ SStep(Op("signal_move", Identifier_default, NoSlot, Nullopt, "none", <<>>, slots, alive),
             Signal_moved_from(slots), [exists |-> TRUE, slots |-> slots])

\* b goes out of scope
SigBDestroy ==
    /\ sigB.exists
    /\ SStep(Op("b_destroy", Identifier_default, NoSlot, Nullopt, "none", <<>>, sigB.slots, alive),
             slots, NoSignal)

\* b.connect(s);
SigBConnect(s) ==
    LET id == ConnectId(sigB.slots)
    IN  /\ sigB.exists
        /\ Len(sigB.slots) < MaxSlots
        /\ id.hi = 0 /\ id.lo <= MaxId
        /\ SStep(Op("b_connect", id, s, Nullopt, "none", <<>>, sigB.slots, alive),
                 slots, [sigB EXCEPT !.slots = Append(@, [id |-> id, slot |-> s])])

\* b.disconnect(id);
SigBDisconnect(id) ==
    LET k == FindId(sigB.slots, id)
    IN  /\ sigB.exists
        /\ IF k = 0
           THEN SStep(Op("b_disconnect", id, NoSlot, Nullopt, "invalid_argument", <<>>,
                         sigB.slots, alive),
                      slots, sigB)
           ELSE SStep(Op("b_disconnect", id, sigB.slots[k].slot, Nullopt, "none", <<>>,
                         sigB.slots, alive),
                      slots, [sigB EXCEPT !.slots = Erase(@, k)])

\* b.emit();
SigBEmit ==
    LET e == EmitNonVoid(sigB.slots, alive)
    IN  /\ sigB.exists
        /\ e.alive = alive
        /\ SStep(Op("b_emit", Identifier_default, NoSlot, e.ret, "none", e.log,
                    sigB.slots, alive),
                 slots, sigB)

\* the identifiers handed to disconnect on either Signal
CopyIdInputs == { IdOf(n) : n \in 0..MaxId }

SignalCopyNext ==
    \/ \E s \in RegistrySlots : Connect(s) /\ UNCHANGED <<hist, lvars>>
    \/ \E id \in CopyIdInputs : Disconnect(id) /\ UNCHANGED <<hist, lvars>>
    \/ Emit /\ UNCHANGED <<hist, lvars>>
    \/ \E m \in Markers : DestroyLifetime(m) /\ UNCHANGED <<hist, lvars>>
    \/ SigCopyConstruct
    \/ SigMoveConstruct
    \/ SigCopyAssign
    \/ SigMoveAssign
    \/ SigBDestroy
    \/ \E s \in RegistrySlots : SigBConnect(s)
    \/ \E id \in CopyIdInputs : SigBDisconnect(id)
    \/ SigBEmit

\* two Signal<int()> objects of one caller
SignalCopySpec == Init /\ [][SignalCopyNext]_vars

(***************************************************************************)
(* Slot objects: the caller constructs a second Slot from a callable, or   *)
(* from its first Slot by copy or by move, tracks and untracks on each,    *)
(* and destroys the second one.                                            *)
(***************************************************************************)
\* Slot::sanitize(f) in Slot(F f): throws on an empty function, else the
\* Slot holds f and tracks nothing
Slot_construct(f) ==
    IF IsEmptyFunction(f)
    THEN [threw |-> "invalid_argument", slot |-> NoSlot]
    ELSE [threw |-> "none", slot |-> [f |-> f, observers |-> <<>>]]

\* a copy that takes the function and leaves the observers
Slot_copy_FunctionOnly(s) == [s EXCEPT !.observers = <<>>]

\* Slot(Slot const&) = default: f_ and observers_ are copied
Slot_copy(s) == s

\* what Slot(Slot&&) = default may leave in its source: observers_ is empty
\* after std::vector's move constructor; f_ is in a valid but unspecified
\* state after std::function's, holding its target still or holding nothing
MovedFromSlots(s) ==
    { [f |-> g, observers |-> <<>>] : g \in {s.f, EmptyFunction} }

\* the callables handed to the constructor of a Slot
FunctionInputs == { [val |-> 3, kills |-> {}], EmptyFunction }

\* one step on the caller's Slots
OStep(rec, newSlot, newOther) ==
    /\ slot' = newSlot
    /\ other' = newOther
    /\ last' = rec
    /\ slots' = EntriesAfterCallerChange(slots, slot, newSlot)
    /\ UNCHANGED <<alive, hist, lifes, obs, addrOf, sigB>>

\* auto other = Slot<int()>{f};
OtherConstruct(f) ==
    /\ ~other.exists
    /\ LET r == Slot_construct(f)
       IN  OStep(LOp("slot_construct", "", "", IsEmptyFunction(f), Nullopt, r.threw, PreState),
                 slot,
                 IF r.threw = "none"
                 THEN [exists |-> TRUE, slot |-> r.slot, twin |-> FALSE]
                 ELSE other)

\* auto other = slot;
OtherCopyConstruct ==
    /\ ~other.exists
    /\ OStep(LOp("slot_copy", "", "", FALSE, Nullopt, "none", PreState),
             slot, [exists |-> TRUE, slot |-> Slot_copy(slot), twin |-> TRUE])

\* auto other = std::move(slot);
OtherMoveConstruct ==
    /\ ~other.exists
    /\ \E s \in MovedFromSlots(slot) :
          OStep(LOp("slot_move", "", "", FALSE, Nullopt, "none", PreState),
                s, [exists |-> TRUE, slot |-> slot, twin |-> FALSE])

\* other goes out of scope
OtherDestroy ==
    /\ other.exists
    /\ OStep(LOp("slot_destroy", "", "", FALSE, Nullopt, "none", PreState),
             slot, NoOther)

\* other.track(d);
OtherTrackLifetime(d) ==
    /\ other.exists /\ lifes[d].exists
    /\ Len(other.slot.observers) < MaxObservers
    /\ IF lifes[d].life = 0
       THEN OStep(SlotOp("other_track", 0, "invalid_argument", PreState), slot, other)
       ELSE OStep(SlotOp("other_track", lifes[d].life, "none", PreState), slot,
                  [other EXCEPT !.slot = Slot_track(@, lifes[d].life), !.twin = FALSE])

\* other.untrack(d);
OtherUntrackLifetime(d) ==
    /\ other.exists /\ lifes[d].exists
    /\ IF lifes[d].life = 0
       THEN OStep(SlotOp("other_untrack", 0, "invalid_argument", PreState), slot, other)
       ELSE LET r == Slot_untrack(other.slot, lifes[d].life, alive, addrOf)
            IN  OStep(SlotOp("other_untrack", lifes[d].life, r.threw, PreState), slot,
                      [other EXCEPT !.slot = r.slot,
                                    !.twin = @ /\ r.slot = other.slot])

\* other.is_expired();  flag is the result
OtherIsExpired ==
    /\ other.exists
    /\ OStep(LOp("other_is_expired", "", "", Slot_is_expired(other.slot, alive),
                 Nullopt, "none", PreState),
             slot, other)

\* other(args...);  flag tells whether the callable ran
OtherCall ==
    /\ other.exists
    /\ LET r == Slot_call(other.slot, alive)
       IN  /\ r.alive = alive
           /\ OStep(LOp("other_call", "", "", r.has, [has |-> r.has, val |-> r.val],
                        r.threw, PreState),
                    slot, other)

\* the caller's Lifetime: a block-scoped object, constructed and destroyed
\* over and over
ClientLifetimes == {"L1"}

SlotObjectNext ==
    \/ \E d \in ClientLifetimes : LConstruct(d)
    \/ \E d \in ClientLifetimes : LDestroy(d)
    \/ \E d \in ClientLifetimes : SlotTrackLifetime(d)
    \/ \E d \in ClientLifetimes : SlotUntrackLifetime(d)
    \/ \E f \in FunctionInputs : OtherConstruct(f)
    \/ OtherCopyConstruct
    \/ OtherMoveConstruct
    \/ OtherDestroy
    \/ \E d \in ClientLifetimes : OtherTrackLifetime(d)
    \/ \E d \in ClientLifetimes : OtherUntrackLifetime(d)
    \/ SlotIsExpired
    \/ OtherIsExpired
    \/ SlotCall
    \/ OtherCall

\* two Slot<int()> objects of one caller
SlotObjectSpec == LifetimeInit /\ [][SlotObjectNext]_vars

(***************************************************************************)
(* The caller's Slot and a Signal together: the caller tracks and untracks *)
(* Lifetimes on its Slot, connects the Slot (again and again), disconnects *)
(* entries and emits.                                                      *)
(***************************************************************************)
\* sig.connect(slot);
ClientConnect ==
    /\ Len(slots) < MaxCopies
    /\ Connect(slot)
    /\ UNCHANGED <<hist, lvars>>

ClientNext ==
    \/ \E d \in ClientLifetimes : LConstruct(d)
    \/ \E d \in ClientLifetimes : LDestroy(d)
    \/ \E d \in ClientLifetimes : SlotTrackLifetime(d)
    \/ \E d \in ClientLifetimes : SlotUntrackLifetime(d)
    \/ ClientConnect
    \/ \E id \in IdInputs : Disconnect(id) /\ UNCHANGED <<hist, lvars>>
    \/ Emit /\ UNCHANGED <<hist, lvars>>

\* a Signal<int()> and a Slot<int()> of one caller
ClientSpec == LifetimeInit /\ [][ClientNext]_vars

(***************************************************************************)
(* Identifier on its own: the caller holds an Identifier, takes its next,  *)
(* default-constructs one and compares it with others.  The Identifiers    *)
(* the caller starts from lie at both ends of each limb.                   *)
(***************************************************************************)
LimbSamples == {0, 1, LimbBase - 2, LimbBase - 1}

IdSamples == { [hi |-> h, lo |-> l] : h \in LimbSamples, l \in LimbSamples }

\* the record kept of one operation on Identifiers: x and y the arguments,
\* id the Identifier the caller holds afterwards, flag the boolean returned,
\* n the calls of next made in a row
IdOp(name, x, y, id, flag, n) ==
    [op |-> name, x |-> x, y |-> y, id |-> id, flag |-> flag, n |-> n]

IdentifierInit ==
    /\ slots = <<>>
    /\ alive = {}
    /\ hist = NoHistory
    /\ NoLifetimes
    /\ \E x \in IdSamples : last = IdOp("init", x, x, x, FALSE, 0)

\* id = Identifier::next(id);
IdNext ==
    /\ last.n < MaxNexts
    /\ last' = IdOp("next", last.id, last.id, Identifier_next(last.id), FALSE, last.n + 1)
    /\ UNCHANGED <<slots, alive, hist, lvars>>

\* id = Identifier{};
IdDefault ==
    /\ last' = IdOp("default", last.id, last.id, Identifier_default, FALSE, 0)
    /\ UNCHANGED <<slots, alive, hist, lvars>>

\* id == y
IdEquals(y) ==
    /\ last' = IdOp("eq", last.id, y, last.id, Identifier_eq(last.id, y), last.n)
    /\ UNCHANGED <<slots, alive, hist, lvars>>

\* id != y
IdDiffers(y) ==
    /\ last' = IdOp("neq", last.id, y, last.id, ~Identifier_eq(last.id, y), last.n)
    /\ UNCHANGED <<slots, alive, hist, lvars>>

IdentifierNext ==
    \/ IdNext
    \/ IdDefault
    \/ \E y \in IdSamples : IdEquals(y)
    \/ \E y \in IdSamples : IdDiffers(y)

IdentifierSpec == IdentifierInit /\ [][IdentifierNext]_vars

(***************************************************************************)
(* Properties of emission.  They read the record of the last operation     *)
(* and say what "expired" means on their own.                              *)
(***************************************************************************)
\* the entry e tracks a marker that is not among the alive markers a
ExpiredIn(e, a) ==
    \E k \in 1..Len(e.slot.observers) : e.slot.observers[k] \notin a

IsEmit == last.op \in {"emit", "emit_void"}

\* the positions of the entries the last emission invoked
Invoked == { last.log[j].pos : j \in DOMAIN last.log }

\* the markers the callable of entry i destroys, those entry i tracks
KillsOf(i) == last.preSlots[i].slot.f.kills

TrackedBy(i) ==
    { last.preSlots[i].slot.observers[k] : k \in 1..Len(last.preSlots[i].slot.observers) }

\* the markers alive when the last emission came to entry i: those alive
\* before it, less the ones destroyed by the entries invoked before i
AliveAt(i) ==
    last.preAlive \ UNION { KillsOf(last.log[j].pos) :
                              j \in { n \in DOMAIN last.log : last.log[n].pos < i } }

\* the entries not expired when the last operation began
LiveBefore == { i \in DOMAIN last.preSlots : ~ExpiredIn(last.preSlots[i], last.preAlive) }

\* C1: emit() of a result-producing Signal returns the value of the entry
\* that is last in insertion order among the entries that are not expired.
C1_EmitReturnsLastNonExpired ==
    (last.op = "emit" /\ LiveBefore # {})
        => last.ret = Some(last.preSlots[SetMax(LiveBefore)].slot.f.val)

\* C2: during one emit() every entry that is not expired when its turn comes
\* is invoked exactly once, the invocations are in insertion order, and no
\* expired entry is invoked.
C2_InvokesEachLiveEntryOnceInOrder ==
    IsEmit =>
        /\ \A j, k \in DOMAIN last.log : j < k => last.log[j].pos < last.log[k].pos
        /\ \A j \in DOMAIN last.log : last.log[j].pos \in DOMAIN last.preSlots
        /\ \A i \in DOMAIN last.preSlots :
               i \in Invoked <=> ~ExpiredIn(last.preSlots[i], AliveAt(i))

\* an emission that invoked two entries and skipped an expired one
C2_Witness ==
    /\ IsEmit
    /\ Len(last.log) >= 2
    /\ \E i \in DOMAIN last.preSlots : i \notin Invoked

\* C3: emit() of a result-producing Signal returns the result of the last
\* entry that ran during the emission, and "no value" only when none ran.
C3_EmitReturnsLastRun ==
    last.op = "emit" =>
        IF last.log = <<>> THEN last.ret = Nullopt
        ELSE last.ret = Some(last.preSlots[last.log[Len(last.log)].pos].slot.f.val)

\* C4: an entry whose tracked lifetime is ended by the invocation of an
\* earlier entry within the same emit() is not invoked in that emission.
EndedDuringEmit(i) ==
    /\ i \in LiveBefore
    /\ \E j \in DOMAIN last.log :
          /\ last.log[j].pos < i
          /\ KillsOf(last.log[j].pos) \cap TrackedBy(i) # {}

C4_ExpiryRecheckedBeforeEachInvocation ==
    IsEmit => \A i \in DOMAIN last.preSlots : EndedDuringEmit(i) => i \notin Invoked

\* an emission in which an earlier entry ended the lifetime of a later one,
\* and an entry after that one still ran
C4_Witness ==
    /\ IsEmit
    /\ \E i \in DOMAIN last.preSlots :
          /\ EndedDuringEmit(i)
          /\ \E n \in Invoked : n > i

\* C5: emit() on a Signal with no entries, or whose entries are all expired,
\* invokes no callable and returns "no value".
C5_NothingLiveNothingInvoked ==
    (IsEmit /\ LiveBefore = {}) => (last.log = <<>> /\ last.ret = Nullopt)

\* an emission of a Signal that holds entries, all of them expired
C5_Witness ==
    /\ IsEmit
    /\ Len(last.preSlots) >= 2
    /\ LiveBefore = {}
    /\ last.log = <<>>

(***************************************************************************)
(* Properties of the registry: identifiers, connect and disconnect.        *)
(***************************************************************************)
\* C6: the identifiers of the currently registered entries of one Signal
\* are pairwise distinct in every reachable state.
C6_IdentifiersDistinct ==
    \A i, j \in DOMAIN slots : i # j => slots[i].id # slots[j].id

\* C7: once disconnect(id) has succeeded, a later disconnect(id) fails with
\* invalid-argument, whatever operations happened in between.
C7_DisconnectedIdStaysInvalid ==
    (last.op = "disconnect" /\ last.id \in hist.before.disconnected)
        => last.threw = "invalid_argument"

\* C7, amended: once disconnect(id) has succeeded, a later disconnect(id)
\* fails with invalid-argument whenever every connect that returned id has
\* been matched by a successful disconnect(id), that is, unless connect has
\* minted id again for an entry that is still registered.
C7_DisconnectFailsUnlessIdMintedAgain ==
    ( /\ last.op = "disconnect"
      /\ last.id \in hist.before.disconnected
      /\ CopiesIn(last.id, hist.before.outstanding) = 0 )
        => last.threw = "invalid_argument"

\* a second disconnect of an identifier fails while other entries, connected
\* in between, are registered
C7_Witness ==
    /\ last.op = "disconnect"
    /\ last.id \in hist.before.disconnected
    /\ last.threw = "invalid_argument"
    /\ Len(slots) >= 2

\* the identifiers of the entries registered before the last operation
IdsBefore == { last.preSlots[i].id : i \in DOMAIN last.preSlots }

\* C8: disconnect(id) fails with invalid-argument whenever no currently
\* registered entry has identifier id.
C8_DisconnectUnknownIdFails ==
    (last.op = "disconnect" /\ last.id \notin IdsBefore)
        => last.threw = "invalid_argument"

\* disconnect of the default zero identifier fails on a Signal that holds no
\* entry and has had entries disconnected
C8_Witness ==
    /\ last.op = "disconnect"
    /\ last.id = Identifier_default
    /\ last.preSlots = <<>>
    /\ last.id \in hist.before.disconnected
    /\ last.threw = "invalid_argument"

\* the value of y is the value of x plus one
OneGreater(y, x) ==
    \/ x.lo + 1 < LimbBase /\ y = [hi |-> x.hi, lo |-> x.lo + 1]
    \/ x.lo + 1 = LimbBase /\ x.hi + 1 < LimbBase /\ y = [hi |-> x.hi + 1, lo |-> 0]

\* the value of y is the value of x plus one, modulo 2^32
OneGreaterMod(y, x) ==
    \/ OneGreater(y, x)
    \/ x = Identifier_max /\ y = [hi |-> 0, lo |-> 0]

Appended == slots = Append(last.preSlots, [id |-> last.id, slot |-> last.slot])

\* C9: connect appends the entry and returns its identifier: zero when the
\* sequence was empty, otherwise one greater than the identifier of the
\* entry that was last.
C9_ConnectIdOneGreaterThanLast ==
    last.op = "connect" =>
        /\ Appended
        /\ IF last.preSlots = <<>>
           THEN last.id = [hi |-> 0, lo |-> 0]
           ELSE OneGreater(last.id, last.preSlots[Len(last.preSlots)].id)

\* C9, amended: connect appends the entry and returns its identifier: zero
\* when the sequence was empty, otherwise one greater, modulo 2^32, than the
\* identifier of the entry that was last (zero after the largest value).
C9_ConnectIdNextOfLast ==
    last.op = "connect" =>
        /\ Appended
        /\ IF last.preSlots = <<>>
           THEN last.id = [hi |-> 0, lo |-> 0]
           ELSE OneGreaterMod(last.id, last.preSlots[Len(last.preSlots)].id)

\* a connect on a Signal that has been emptied returns zero again
C9_Witness ==
    /\ last.op = "connect"
    /\ last.preSlots = <<>>
    /\ [hi |-> 0, lo |-> 0] \in hist.before.disconnected
    /\ last.id = [hi |-> 0, lo |-> 0]

\* C10: a successful disconnect(id) removes exactly one entry, whose
\* identifier is id, and returns that entry's Slot; the other entries keep
\* their identifiers and their relative order.
C10_DisconnectRemovesThatEntryOnly ==
    (last.op = "disconnect" /\ last.threw = "none") =>
        \E k \in DOMAIN last.preSlots :
            /\ last.preSlots[k].id = last.id
            /\ last.slot = last.preSlots[k].slot
            /\ Len(slots) = Len(last.preSlots) - 1
            /\ \A i \in DOMAIN slots :
                   slots[i] = last.preSlots[IF i < k THEN i ELSE i + 1]

\* a disconnect that removed the middle one of three entries whose Slots
\* differ from it
C10_Witness ==
    /\ last.op = "disconnect"
    /\ last.threw = "none"
    /\ Len(last.preSlots) = 3
    /\ last.preSlots[2].id = last.id
    /\ last.preSlots[1].id # last.id
    /\ last.preSlots[3].slot # last.slot

\* C11: every connect increases slot_count() by exactly one and makes
\* is_empty() false; every successful disconnect decreases slot_count() by
\* exactly one; is_empty() is true exactly when slot_count() is zero.
C11_CountFollowsConnectAndDisconnect ==
    /\ Signal_is_empty(slots) <=> Signal_slot_count(slots) = 0
    /\ last.op = "connect" =>
          /\ Signal_slot_count(slots) = Signal_slot_count(last.preSlots) + 1
          /\ ~Signal_is_empty(slots)
    /\ (last.op = "disconnect" /\ last.threw = "none") =>
          Signal_slot_count(slots) = Signal_slot_count(last.preSlots) - 1
    /\ (last.op = "disconnect" /\ last.threw # "none") =>
          Signal_slot_count(slots) = Signal_slot_count(last.preSlots)

\* a disconnect that emptied the Signal, after a connect on the empty Signal
C11_Witness ==
    /\ last.op = "disconnect"
    /\ last.threw = "none"
    /\ Signal_slot_count(last.preSlots) = 1
    /\ Signal_is_empty(slots)
    /\ hist.before.disconnected # {}

\* C12: emission never fails with "expired": emit() skips an entry that is
\* expired when its turn comes and ends without an exception, whereas
\* invoking that same Slot directly fails with "expired".
C12_EmitSkipsWhereDirectCallThrows ==
    /\ IsEmit =>
          /\ last.threw = "none"
          /\ \A i \in DOMAIN last.preSlots :
                 ExpiredIn(last.preSlots[i], AliveAt(i)) => i \notin Invoked
    /\ (last.op = "call" /\ ExpiredIn([slot |-> last.slot], last.preAlive)) =>
          /\ last.threw = "expired"
          /\ last.log = <<>>
          /\ alive = last.preAlive

\* a direct call of the Slot of an expired registered entry threw Expired
C12_Witness ==
    /\ last.op = "call"
    /\ last.threw = "expired"
    /\ \E i \in DOMAIN slots : slots[i].slot = last.slot /\ ExpiredIn(slots[i], alive)

(***************************************************************************)
(* Properties of Slots and Lifetimes.  They are stated against the         *)
(* Lifetime objects: a marker is expired when no Lifetime that exists      *)
(* holds it.                                                               *)
(***************************************************************************)
\* the markers held by the Lifetimes ls that exist
OwnedIn(ls) ==
    { m \in DOMAIN addrOf : \E L \in LifetimeObjs : ls[L].exists /\ ls[L].life = m }

OwnedMarkers == OwnedIn(lifes)

OwnedBefore == OwnedIn(last.pre.lifes)

\* some observer the caller's Slot tracks is expired
SlotTracksExpired ==
    \E k \in DOMAIN slot.observers : slot.observers[k] \notin OwnedMarkers

\* C13: invoking a Slot directly fails with "expired", without running the
\* callable, if and only if the Slot is expired at the time of the call;
\* otherwise the callable runs and the call returns its result.
C13_DirectCallThrowsIffExpired ==
    last.op = "call" =>
        /\ (last.threw = "expired") <=> SlotTracksExpired
        /\ SlotTracksExpired => (~last.flag /\ last.ret = Nullopt)
        /\ ~SlotTracksExpired =>
              (last.threw = "none" /\ last.flag /\ last.ret = Some(slot.f.val))

\* a call that threw Expired on a Slot tracking two observers of which the
\* first is live
C13_Witness ==
    /\ last.op = "call"
    /\ last.threw = "expired"
    /\ Len(slot.observers) = 2
    /\ slot.observers[1] \in OwnedMarkers

C15_ExpiredWhenNothingTracked ==
    (last.op = "is_expired" /\ slot.observers = <<>>) => last.flag

\* C16: an observer that is expired stays expired whatever is done next,
\* and taking or dropping an observer neither ends nor extends a lifetime.
C16_ExpiredStaysExpired ==
    [][ /\ \A m \in DOMAIN addrOf : m \notin OwnedMarkers => m \notin OwnedMarkers'
        /\ last'.op \in {"track", "drop"} => OwnedMarkers' = OwnedMarkers ]_vars

\* a new marker was created while the caller holds an expired observer
C16_Witness ==
    /\ last.op \in {"construct", "copy_construct", "copy_assign"}
    /\ (last.dst # last.src \/ last.op = "construct")
    /\ \E m \in obs : m \notin OwnedMarkers

\* C17: an entry whose Slot tracks one Lifetime is invoked by every emit
\* made while the Lifetime is alive, and by no emit made after the Lifetime
\* was destroyed; a Lifetime that was destroyed never becomes alive again.
C17_SkippedFromDestructionOn ==
    [][ /\ alive' \subseteq alive
        /\ last'.op \in {"emit", "emit_void"} =>
              \A i \in DOMAIN slots' :
                  Len(slots'[i].slot.observers) = 1 =>
                      /\ slots'[i].slot.observers[1] \in alive' => i \in Invoked'
                      /\ slots'[i].slot.observers[1] \notin alive => i \notin Invoked' ]_vars

\* one emission that skipped an entry tracking a destroyed Lifetime and
\* invoked an entry tracking a live one
C17_Witness ==
    /\ IsEmit
    /\ \E i, j \in DOMAIN slots :
          /\ Len(slots[i].slot.observers) = 1
          /\ Len(slots[j].slot.observers) = 1
          /\ slots[i].slot.observers[1] \notin last.preAlive
          /\ slots[j].slot.observers[1] \in alive
          /\ i \notin Invoked
          /\ j \in Invoked
          /\ i < j

\* C18: a copy of a Lifetime holds a marker of its own, created by the
\* copy: no two Lifetimes hold one marker, copying leaves the original's
\* marker in place and expires nothing, destroying one Lifetime expires
\* its own marker only, and live observers of different markers have
\* different identities.
C18_CopyHasItsOwnMarker ==
    /\ \A L, K \in LifetimeObjs :
           (L # K /\ lifes[L].exists /\ lifes[K].exists /\ lifes[L].life # 0)
               => lifes[L].life # lifes[K].life
    /\ last.op = "copy_construct" =>
           /\ lifes[last.dst].life \in OwnedMarkers \ DOMAIN last.pre.addrOf
           /\ lifes[last.src] = last.pre.lifes[last.src]
           /\ OwnedBefore \subseteq OwnedMarkers
    /\ last.op = "destroy" =>
           OwnedBefore \ OwnedMarkers \subseteq {last.pre.lifes[last.dst].life}
    /\ \A m, n \in OwnedMarkers :
           m # n => Observer_get_id(m, OwnedMarkers, addrOf)
                        # Observer_get_id(n, OwnedMarkers, addrOf)

\* a Lifetime observed by the caller was copied
C18_Witness ==
    /\ last.op = "copy_construct"
    /\ lifes[last.src].life \in obs
    /\ lifes[last.src].life \in OwnedMarkers

\* C19: a move of a Lifetime hands its marker to the moved-to Lifetime and
\* leaves the moved-from one holding nothing: destroying the moved-from
\* Lifetime expires nothing, and destroying or assigning to the Lifetime
\* that holds a marker expires it.
C19_MoveTransfersMarker ==
    /\ (last.op \in {"move_construct", "move_assign"} /\ last.dst # last.src) =>
           /\ lifes[last.dst].life = last.pre.lifes[last.src].life
           /\ lifes[last.src] = [exists |-> TRUE, life |-> 0]
           /\ last.pre.lifes[last.src].life # 0 =>
                  last.pre.lifes[last.src].life \in OwnedMarkers
    /\ (last.op = "destroy" /\ last.pre.lifes[last.dst].life = 0) =>
           OwnedMarkers = OwnedBefore
    /\ ( /\ \/ last.op = "destroy"
             \/ (last.op \in {"copy_assign", "move_assign"} /\ last.dst # last.src)
          /\ last.pre.lifes[last.dst].life # 0 ) =>
           last.pre.lifes[last.dst].life \notin OwnedMarkers

\* the moved-from Lifetime was destroyed and the caller's observer of the
\* marker it gave away is still live
C19_Witness ==
    /\ last.op = "destroy"
    /\ last.pre.lifes[last.dst].life = 0
    /\ \E m \in obs : m \in OwnedMarkers

\* C20: a marker expires exactly when the Lifetime holding it is destroyed
\* or is assigned another Lifetime, by copy or by move; self-assignment
\* expires nothing.
C20_ExpiredExactlyOnDestroyOrAssign ==
    /\ (last.op \in {"copy_assign", "move_assign"} /\ last.dst = last.src) =>
           /\ lifes = last.pre.lifes
           /\ OwnedMarkers = OwnedBefore
    /\ \A m \in OwnedBefore :
           m \notin OwnedMarkers <=>
               /\ last.dst \in LifetimeObjs
               /\ last.pre.lifes[last.dst].life = m
               /\ \/ last.op = "destroy"
                  \/ (last.op \in {"copy_assign", "move_assign"} /\ last.dst # last.src)

\* a Lifetime observed by the caller was assigned to itself
C20_Witness ==
    /\ last.op = "copy_assign"
    /\ last.dst = last.src
    /\ lifes[last.dst].life \in obs

(***************************************************************************)
(* Properties of a Signal and the caller's Slot together.                  *)
(***************************************************************************)
\* the last operation was a track or an untrack on the caller's Slot
IsSlotChange == last.op \in {"slot_track", "slot_untrack"}

\* every observer of entry e is live
EntryLive(e) ==
    \A k \in DOMAIN e.slot.observers : e.slot.observers[k] \in OwnedMarkers

\* C21: the Signal holds its own copy of a connected Slot: track and untrack
\* on the caller's Slot leave every entry as it is, and emit invokes an
\* entry whose own observers are live whatever the caller's Slot tracks now.
C21_EntryIsACopy ==
    /\ IsSlotChange => slots = last.pre.slots
    /\ last.op = "emit" =>
           \A i \in DOMAIN slots : EntryLive(slots[i]) => i \in Invoked

\* emit returned the value of an entry tracking nothing although the
\* caller's Slot has tracked, after connect, a Lifetime now destroyed
C21_Witness ==
    /\ last.op = "emit"
    /\ slots # <<>>
    /\ slots[1].slot.observers = <<>>
    /\ SlotTracksExpired
    /\ 1 \in Invoked
    /\ last.ret = Some(slot.f.val)

(***************************************************************************)
(* Properties of Slot::track and Slot::untrack.                            *)
(***************************************************************************)
\* get_id() of an observer of marker m when the last operation began
IdBefore(m) == IF m \in OwnedBefore THEN last.pre.addrOf[m] ELSE 0

\* the positions, before the last untrack, of the observers with the
\* identity of its argument
Matching ==
    { k \in DOMAIN last.pre.slot.observers :
        IdBefore(last.pre.slot.observers[k]) = IdBefore(last.arg) }

\* sequence t is sequence s without its k-th element
Without(t, s, k) ==
    /\ Len(t) = Len(s) - 1
    /\ \A j \in 1..Len(t) : t[j] = s[IF j < k THEN j ELSE j + 1]

\* C22: untrack(x) removes the first observer, in insertion order, whose
\* get_id() equals that of x and keeps the others in their order; with no
\* such observer it fails with invalid-argument.
C22_UntrackRemovesFirstMatch ==
    (last.op = "slot_untrack" /\ last.arg # 0) =>
        IF Matching = {}
        THEN last.threw = "invalid_argument"
        ELSE /\ last.threw = "none"
             /\ \E k \in Matching :
                   /\ \A j \in Matching : k <= j
                   /\ Without(slot.observers, last.pre.slot.observers, k)

\* an untrack that had two observers of different markers to choose from
C22_Witness ==
    /\ last.op = "slot_untrack"
    /\ last.threw = "none"
    /\ Matching = {1, 2}
    /\ last.pre.slot.observers[1] # last.pre.slot.observers[2]

\* how many times the sequence os holds marker m
Count(os, m) == Cardinality({ k \in DOMAIN os : os[k] = m })

\* C23: track(x) puts x at the end of the tracked collection even when it
\* is tracked already; an untrack of a live target takes one of its
\* occurrences away and fails only when none is left; a Slot that still
\* tracks a target is expired once the target is destroyed.
C23_TrackAppendsWithoutDedup ==
    /\ (last.op = "slot_track" /\ last.arg # 0) =>
           slot.observers = Append(last.pre.slot.observers, last.arg)
    /\ (last.op = "slot_untrack" /\ last.arg \in OwnedBefore) =>
           IF Count(last.pre.slot.observers, last.arg) = 0
           THEN last.threw = "invalid_argument"
           ELSE /\ last.threw = "none"
                /\ \A m \in DOMAIN addrOf :
                       Count(slot.observers, m) =
                           Count(last.pre.slot.observers, m) - (IF m = last.arg THEN 1 ELSE 0)
    /\ last.op = "is_expired" =>
           \A m \in DOMAIN addrOf :
               (Count(slot.observers, m) > 0 /\ m \notin OwnedMarkers) => last.flag

\* a live target tracked twice and untracked once is still tracked
C23_Witness ==
    /\ last.op = "slot_untrack"
    /\ last.threw = "none"
    /\ last.arg \in OwnedMarkers
    /\ Count(last.pre.slot.observers, last.arg) = 2
    /\ Count(slot.observers, last.arg) = 1

(***************************************************************************)
(* Properties of Lifetime_observer::get_id.                                *)
(***************************************************************************)
\* C24: get_id() of an observer is zero exactly when the observer is
\* expired, does not change while the observer is live, and is the same
\* for two live observers exactly when they observe one marker.
C24_IdStableWhileLiveZeroAfter ==
    [][ /\ last'.op = "get_id" =>
              (last'.ret.val = 0 <=> last'.arg \notin OwnedMarkers')
        /\ \A m \in OwnedMarkers \cap OwnedMarkers' :
              Observer_get_id(m, alive, addrOf)' = Observer_get_id(m, alive, addrOf)
        /\ \A m, n \in OwnedMarkers' :
              (Observer_get_id(m, alive, addrOf)' = Observer_get_id(n, alive, addrOf)')
                  <=> m = n ]_vars

\* get_id() of a live observer whose cell has the address an earlier marker
\* had
C24_Witness ==
    /\ last.op = "get_id"
    /\ last.ret.val # 0
    /\ \E n \in DOMAIN addrOf : n # last.arg /\ addrOf[n] = last.ret.val

(***************************************************************************)
(* Failed operations.                                                      *)
(***************************************************************************)
\* C25: a disconnect that fails leaves the entries of the Signal as they
\* were, and an untrack that fails leaves the tracked collection of the
\* Slot as it was.
C25_FailedOperationChangesNothing ==
    /\ (last.op = "disconnect" /\ last.threw # "none") => slots = last.preSlots
    /\ (last.op = "slot_untrack" /\ last.threw # "none") =>
           /\ slot = last.pre.slot
           /\ slots = last.pre.slots

\* an untrack failed on a Slot that tracks something, a Slot being connected
C25_Witness ==
    /\ last.op = "slot_untrack"
    /\ last.threw = "invalid_argument"
    /\ last.arg # 0
    /\ slot.observers # <<>>
    /\ slots # <<>>

(***************************************************************************)
(* Properties of Identifier.                                               *)
(***************************************************************************)
\* default construction yields zero; == and != tell whether the values are
\* the same
DefaultAndEquality ==
    /\ last.op = "default" => last.id = [hi |-> 0, lo |-> 0]
    /\ last.op = "eq" => (last.flag <=> last.x = last.y)
    /\ last.op = "neq" => (last.flag <=> last.x # last.y)

\* C26: next(x) is the identifier whose value is one greater than that of
\* x, for every x; default construction yields zero; two identifiers are
\* equal iff their values are.
C26_NextIsOneGreater ==
    /\ last.op = "next" => OneGreater(last.id, last.x)
    /\ DefaultAndEquality

\* C26 as the code has it: next(x) is the identifier whose value is one
\* greater than that of x modulo 2^32, hence zero for the largest value;
\* default construction yields zero; two identifiers are equal iff their
\* values are.
C26_NextIsOneGreaterMod ==
    /\ last.op = "next" => OneGreaterMod(last.id, last.x)
    /\ DefaultAndEquality

\* next of the largest identifier, which is zero
C26_Witness ==
    /\ last.op = "next"
    /\ last.x = [hi |-> LimbBase - 1, lo |-> LimbBase - 1]
    /\ last.id = [hi |-> 0, lo |-> 0]

(***************************************************************************)
(* Properties of Slot objects.                                             *)
(***************************************************************************)
\* C27: every Slot holds a non-empty callable in every state: constructing
\* one from an empty callable fails with invalid-argument and creates
\* nothing, and no call of a Slot finds its callable empty.
C27_EverySlotHoldsCallable ==
    /\ ~IsEmptyFunction(slot.f)
    /\ other.exists => ~IsEmptyFunction(other.slot.f)
    /\ (last.op = "slot_construct" /\ last.flag) =>
           (last.threw = "invalid_argument" /\ other = last.pre.other)
    /\ last.op \in {"call", "other_call"} => last.threw # "bad_function_call"

\* some observer the second Slot tracks is expired
OtherTracksExpired ==
    \E k \in DOMAIN other.slot.observers : other.slot.observers[k] \notin OwnedMarkers

\* C28: a copy of a Slot holds the same callable and the same observers in
\* the same order; as long as neither is changed the copy is expired
\* exactly when the original is, whatever Lifetime is destroyed; track and
\* untrack on one of the two leave the other as it is.
C28_CopyTracksTheSameLifetimes ==
    /\ last.op = "slot_copy" =>
           (other.exists /\ other.slot = last.pre.slot /\ slot = last.pre.slot)
    /\ (other.exists /\ other.twin) =>
           /\ OtherTracksExpired <=> SlotTracksExpired
           /\ last.op = "other_is_expired" => (last.flag <=> SlotTracksExpired)
           /\ last.op = "is_expired" => (last.flag <=> OtherTracksExpired)
    /\ last.op \in {"slot_track", "slot_untrack"} => other.slot = last.pre.other.slot
    /\ last.op \in {"other_track", "other_untrack"} => slot = last.pre.slot

\* the Lifetime an unchanged copy tracks was destroyed after the copy was
\* made
C28_Witness ==
    /\ last.op = "destroy"
    /\ last.pre.other.exists
    /\ other.twin
    /\ \E k \in DOMAIN other.slot.observers :
          other.slot.observers[k] = last.pre.lifes[last.dst].life

(***************************************************************************)
(* Properties of Signal objects.                                           *)
(***************************************************************************)
\* C29: a copy of a Signal holds the same entries in the same order under
\* the same identifiers, observing the same lifetimes; connect and
\* disconnect on one of the two leave the other as it is; a Signal that was
\* moved from is empty, its entries being in the Signal moved to.
C29_SignalCopyIsIndependent ==
    [][ /\ last'.op = "signal_copy" =>
              (sigB'.exists /\ sigB'.slots = slots /\ slots' = slots)
        /\ last'.op = "signal_move" =>
              (sigB'.exists /\ sigB'.slots = slots /\ slots' = <<>>)
        /\ last'.op \in {"connect", "disconnect"} => sigB' = sigB
        /\ last'.op \in {"b_connect", "b_disconnect"} => slots' = slots
        /\ (last'.op = "b_emit" /\ sigB.slots = slots) =>
              Invoked' = { i \in DOMAIN slots : ~ExpiredIn(slots[i], alive) } ]_vars

\* an entry was disconnected from the copy of a Signal of two entries or
\* more, which still holds them all
C29_Witness ==
    /\ last.op = "b_disconnect"
    /\ last.threw = "none"
    /\ Len(slots) >= 2
    /\ last.preSlots = slots
    /\ Len(sigB.slots) = Len(slots) - 1

\* C30: emit leaves the Signal as it was: the same entries under the same
\* identifiers, expired ones included, which slot_count() still counts and
\* disconnect still removes by their identifier.
C30_EmitLeavesSignalUnchanged ==
    /\ IsEmit =>
          /\ slots = last.preSlots
          /\ Signal_slot_count(slots) = Len(last.preSlots)
    /\ ( /\ last.op = "disconnect"
         /\ \E i \in DOMAIN last.preSlots : last.preSlots[i].id = last.id ) =>
          /\ last.threw = "none"
          /\ Len(slots) = Len(last.preSlots) - 1

\* an emission skipped an expired entry, which is still in the Signal
C30_Witness ==
    /\ IsEmit
    /\ \E i \in DOMAIN slots :
          /\ ExpiredIn(slots[i], last.preAlive)
          /\ i \notin Invoked
    /\ Invoked # {}

(***************************************************************************)
(* The order of the identifiers in a Signal.                               *)
(***************************************************************************)
\* the value of x is below the value of y
ValueLess(x, y) == x.hi < y.hi \/ (x.hi = y.hi /\ x.lo < y.lo)

\* the identifiers of ss increase strictly along the sequence, so the last
\* entry holds the largest
StrictlyIncreasing(ss) ==
    \A i, j \in DOMAIN ss : i < j => ValueLess(ss[i].id, ss[j].id)

\* the step is a connect on a Signal whose last entry holds 4294967295: the
\* counter wraps
WrappingConnect ==
    /\ last'.op = "connect"
    /\ slots # <<>>
    /\ slots[Len(slots)].id = [hi |-> LimbBase - 1, lo |-> LimbBase - 1]

\* C31: as long as the counter has not wrapped, the identifiers of a Signal
\* increase strictly along the insertion order, the last entry holding the
\* largest: they do at first, and every step but a wrapping connect keeps
\* them so.
C31_IdentifiersIncreaseUntilWrap ==
    /\ StrictlyIncreasing(slots)
    /\ [][ (StrictlyIncreasing(slots) /\ ~WrappingConnect)
               => StrictlyIncreasing(slots') ]_vars

\* a connect on a Signal that holds entries and lost one to a disconnect, so
\* that its identifiers have a hole
C31_Witness ==
    /\ last.op = "connect"
    /\ Len(slots) >= 2
    /\ StrictlyIncreasing(slots)
    /\ hist.before.disconnected # {}
    /\ \E id \in hist.before.disconnected :
          /\ ValueLess(id, slots[Len(slots)].id)
          /\ \A i \in DOMAIN slots : slots[i].id # id

(***************************************************************************)
(* The connect that follows a disconnect.                                  *)
(***************************************************************************)
\* the step is the connect that directly follows a successful disconnect
ConnectAfterDisconnect ==
    /\ last.op = "disconnect"
    /\ last.threw = "none"
    /\ last'.op = "connect"

\* the position the disconnect removed: the first entry with its identifier
DisconnectedAt ==
    CHOOSE k \in DOMAIN last.preSlots :
        /\ last.preSlots[k].id = last.id
        /\ \A j \in 1..(k - 1) : last.preSlots[j].id # last.id

\* the disconnect removed the last entry while other entries remain
DisconnectedLast ==
    Len(last.preSlots) > 1 /\ DisconnectedAt = Len(last.preSlots)

\* the disconnect removed an entry that was not the last
DisconnectedInner == DisconnectedAt < Len(last.preSlots)

ExpiredBefore ==
    { k \in DOMAIN last.pre.slot.observers :
        last.pre.slot.observers[k] \notin OwnedBefore }

\* C33: untrack with an expired comparator removes the first expired
\* observer of the Slot whatever marker it observed, and fails when there is
\* none; untrack with a live comparator removes nothing or one observer of
\* the comparator's own marker, never an expired observer and never an
\* observer of a different marker.
C33_ExpiredComparatorMatchesAnyExpired ==
    (last.op = "slot_untrack" /\ last.arg # 0) =>
        IF last.arg \notin OwnedBefore
        THEN IF ExpiredBefore = {}
             THEN /\ last.threw = "invalid_argument"
                  /\ slot.observers = last.pre.slot.observers
             ELSE /\ last.threw = "none"
                  /\ \E k \in ExpiredBefore :
                        /\ \A j \in ExpiredBefore : k <= j
                        /\ Without(slot.observers, last.pre.slot.observers, k)
        ELSE \/ /\ last.threw = "invalid_argument"
                /\ slot.observers = last.pre.slot.observers
             \/ /\ last.threw = "none"
                /\ \E k \in DOMAIN last.pre.slot.observers :
                      /\ last.pre.slot.observers[k] = last.arg
                      /\ k \notin ExpiredBefore
                      /\ Without(slot.observers, last.pre.slot.observers, k)

\* an untrack with an expired comparator took away the only expired observer
\* of the Slot, an observer of another marker than the comparator's, and
\* left a Slot that tracks a live Lifetime and is live again
C33_Witness ==
    /\ last.op = "slot_untrack"
    /\ last.threw = "none"
    /\ last.arg # 0
    /\ last.arg \notin OwnedBefore
    /\ Cardinality(ExpiredBefore) = 1
    /\ \A k \in ExpiredBefore : last.pre.slot.observers[k] # last.arg
    /\ slot.observers # <<>>
    /\ ~SlotTracksExpired

====
